---- MODULE Spec2Model ----
(***************************************************************************)
(* Model of backfill_real_history.py: the FRED series fetcher, the         *)
(* forward-fill cursor (get_value), the risk scorer (compute_risk) and the *)
(* daily history builder (build_daily_history).                            *)
(*                                                                         *)
(* Numbers are fixed point: every indicator value and every risk score is  *)
(* an integer count of thousandths (15.0 is 15000, 0.5 is 500).  The input *)
(* grids are chosen so that every product and quotient of compute_risk is  *)
(* exact in thousandths and the floats of the program carry no rounding    *)
(* error that changes a comparison or the final rounding.  An optional     *)
(* value (Python None or a float) is a sequence of length 0 or 1.  A date  *)
(* is <<year, month, day>>; a formatted date ("%Y-%m-%d") is the sequence  *)
(* of its ten characters, digits as numbers and the separators as "-".     *)
(***************************************************************************)
EXTENDS Integers, Sequences, FiniteSets, TLC

VARIABLES
    pc,              \* position in build_daily_history / mode of the harness
    start_date,      \* argument of build_daily_history
    end_date,        \* argument of build_daily_history
    fi,              \* position of the fetch loop in series_map (1-based)
    history_series,  \* dict label -> fetched observations
    cursors,         \* dict label -> [obs, idx, current]
    d,               \* loop variable of the daily loop
    vals,            \* dict label -> forward-filled value of the day
    out,             \* result of the last compute_risk call, or None
    results,         \* list of {date, risk} records built so far
    returned,        \* the value build_daily_history returned, or None
    fetches,         \* history: label -> number of fetch_series_history calls
    failed,          \* history: the label whose fetch raised, or None
    ncalls,          \* history: label -> number of get_value calls
    lastq,           \* history: label -> the last get_value call on it
    prevq,           \* history: label -> the get_value call before the last
    snap             \* history: [label, cursors] just before the last call

vars == <<pc, start_date, end_date, fi, history_series, cursors, d, vals, out,
          results, returned, fetches, failed, ncalls, lastq, prevq, snap>>

----------------------------------------------------------------------------
(* Optional values *)

None == <<>>

Some(v) == <<v>>

----------------------------------------------------------------------------
(* Bounds of the model *)

\* Largest (end_date - start_date).days a build is started with.
MaxSpan == 2

\* Largest number of get_value calls made on one cursor by the cursor harness.
MaxCalls == 3

----------------------------------------------------------------------------
(* series_map: the nine labels in the dict's insertion order *)

SeriesOrder ==
    << "yield_10y", "yield_2y", "unemployment", "initial_claims", "gdp_growth",
       "industrial_prod", "consumer_sentiment", "credit_spread", "housing_starts" >>

Labels == { SeriesOrder[i] : i \in 1..Len(SeriesOrder) }

----------------------------------------------------------------------------
(* datetime.date: comparison, + timedelta(days=1), strftime, strptime *)

IsLeap(y) == (y % 4 = 0 /\ y % 100 # 0) \/ y % 400 = 0

DaysInMonth(y, m) ==
    IF m = 2 THEN (IF IsLeap(y) THEN 29 ELSE 28)
    ELSE IF m \in {4, 6, 9, 11} THEN 30 ELSE 31

DaysInMonth_noleap(y, m) ==
    IF m = 2 THEN 28
    ELSE IF m \in {4, 6, 9, 11} THEN 30 ELSE 31

\* a <= b on dates
DateLE(a, b) ==
    \/ a[1] < b[1]
    \/ a[1] = b[1] /\ a[2] < b[2]
    \/ a[1] = b[1] /\ a[2] = b[2] /\ a[3] <= b[3]

\* a < b on dates
DateLT(a, b) == DateLE(a, b) /\ a # b

\* d + timedelta(days=1), with the month and year length forgotten in February
NextDay_noleap(dt) ==
    IF dt[3] < DaysInMonth_noleap(dt[1], dt[2]) THEN <<dt[1], dt[2], dt[3] + 1>>
    ELSE IF dt[2] < 12 THEN <<dt[1], dt[2] + 1, 1>>
    ELSE <<dt[1] + 1, 1, 1>>

\* d + timedelta(days=1)
NextDay(dt) ==
    IF dt[3] < DaysInMonth(dt[1], dt[2]) THEN <<dt[1], dt[2], dt[3] + 1>>
    ELSE IF dt[2] < 12 THEN <<dt[1], dt[2] + 1, 1>>
    ELSE <<dt[1] + 1, 1, 1>>

\* d.strftime("%Y-%m-%d")
strftime(dt) ==
    << dt[1] \div 1000, (dt[1] \div 100) % 10, (dt[1] \div 10) % 10, dt[1] % 10,
       "-", dt[2] \div 10, dt[2] % 10, "-", dt[3] \div 10, dt[3] % 10 >>

\* datetime.strptime(s, "%Y-%m-%d").date()
strptime(s) ==
    << s[1] * 1000 + s[2] * 100 + s[3] * 10 + s[4],
       s[6] * 10 + s[7],
       s[9] * 10 + s[10] >>

----------------------------------------------------------------------------
(* fetch_series_history: filter the raw observations, parse, sort by date *)

\* A raw observation of the JSON response: its date as text and its value,
\* which is a numeric text ("num", with the float it parses to), the missing
\* marker "." ("dot"), JSON null ("null") or a text float() rejects ("text").
RawObs(dt, kind, v) == [date |-> strftime(dt), kind |-> kind, v |-> v]

\* Lines 28-34: the observation is kept when its value is present, is not "."
\* and float(val) does not raise ValueError.
Kept(o) == o.kind # "null" /\ o.kind # "dot" /\ o.kind # "text"

\* Lines 26-36: the (date, float) pairs of the kept observations, in order.
RECURSIVE ParseObservations(_)
ParseObservations(raw) ==
    IF raw = <<>> THEN <<>>
    ELSE LET o == Head(raw)
             rest == ParseObservations(Tail(raw))
         IN IF Kept(o)
            THEN <<[date |-> strptime(o.date), value |-> o.v]>> \o rest
            ELSE rest

\* One step of the stable sort: x goes after every element dated <= x.
InsertByDate(s, x) ==
    LET k == Cardinality({ i \in 1..Len(s) : DateLE(s[i].date, x.date) })
    IN SubSeq(s, 1, k) \o <<x>> \o SubSeq(s, k + 1, Len(s))

\* Line 38: observations.sort(key=lambda x: x[0]), a stable sort by date.
RECURSIVE SortByDate(_)
SortByDate(s) ==
    IF s = <<>> THEN <<>>
    ELSE InsertByDate(SortByDate(SubSeq(s, 1, Len(s) - 1)), s[Len(s)])

\* The list fetch_series_history returns for a response holding `raw`.
fetch_series_history(raw) == SortByDate(ParseObservations(raw))

----------------------------------------------------------------------------
(* get_value: the forward-fill cursor *)

\* Lines 148-150 with the comparison made strict.
RECURSIVE Advance_lt(_, _, _, _)
Advance_lt(obs, idx, current, date) ==
    IF idx < Len(obs) /\ DateLT(obs[idx + 1].date, date)
    THEN Advance_lt(obs, idx + 1, Some(obs[idx + 1].value), date)
    ELSE [idx |-> idx, current |-> current]

\* Lines 148-150: advance while obs[idx] is dated <= date.  idx counts the
\* consumed observations, so Python's obs[idx] is obs[idx + 1] here.
RECURSIVE Advance(_, _, _, _)
Advance(obs, idx, current, date) ==
    IF idx < Len(obs) /\ DateLE(obs[idx + 1].date, date)
    THEN Advance(obs, idx + 1, Some(obs[idx + 1].value), date)
    ELSE [idx |-> idx, current |-> current]

\* get_value with a strict comparison in the loop.
get_value_lt(cs, label, date) ==
    LET c == cs[label]
        a == Advance_lt(c.obs, c.idx, c.current, date)
    IN [cursors |-> [cs EXCEPT ![label] =
                        [obs |-> c.obs, idx |-> a.idx, current |-> a.current]],
        ret |-> a.current]

\* get_value without line 153: the carried value is not stored back.
get_value_nocurrent(cs, label, date) ==
    LET c == cs[label]
        a == Advance(c.obs, c.idx, c.current, date)
    IN [cursors |-> [cs EXCEPT ![label] =
                        [obs |-> c.obs, idx |-> a.idx, current |-> c.current]],
        ret |-> a.current]

\* get_value without line 152: the index is not stored back.
get_value_noidx(cs, label, date) ==
    LET c == cs[label]
        a == Advance(c.obs, c.idx, c.current, date)
    IN [cursors |-> [cs EXCEPT ![label] =
                        [obs |-> c.obs, idx |-> c.idx, current |-> a.current]],
        ret |-> a.current]

\* get_value(label, date) on the cursors cs: the cursors after the call and
\* the value returned.
get_value(cs, label, date) ==
    LET c == cs[label]
        a == Advance(c.obs, c.idx, c.current, date)
    IN [cursors |-> [cs EXCEPT ![label] =
                        [obs |-> c.obs, idx |-> a.idx, current |-> a.current]],
        ret |-> a.current]

----------------------------------------------------------------------------
(* compute_risk *)

\* Line 50: the base risk, 15.0.
BaseRisk == 15000

\* Lines 53-58: 10Y - 2Y when both are present.
YieldCurve(yield_10y, yield_2y) ==
    IF yield_10y # None /\ yield_2y # None
    THEN Some(yield_10y[1] - yield_2y[1])
    ELSE None

\* Lines 60-66 with the first threshold made inclusive.
YieldTerm_le(yc) ==
    IF yc = None THEN 0
    ELSE IF yc[1] <= -500 THEN 25000
    ELSE IF yc[1] < 0 THEN (0 - yc[1]) * 30
    ELSE IF yc[1] > 500 THEN -5000
    ELSE 0

\* Lines 60-66.
YieldTerm(yc) ==
    IF yc = None THEN 0
    ELSE IF yc[1] < -500 THEN 25000
    ELSE IF yc[1] < 0 THEN (IF yc[1] < 0 THEN 0 - yc[1] ELSE yc[1]) * 30
    ELSE IF yc[1] > 500 THEN -5000
    ELSE 0

\* Lines 69-74.
UnemploymentTerm(unemployment) ==
    IF unemployment = None THEN 0
    ELSE IF unemployment[1] > 5000 THEN (unemployment[1] - 5000) * 8
    ELSE IF unemployment[1] < 4000 THEN -3000
    ELSE 0

\* Lines 77-80.
ClaimsTerm(initial_claims) ==
    IF initial_claims = None THEN 0
    ELSE IF initial_claims[1] > 300000000
         THEN (initial_claims[1] - 300000000) \div 10000
    ELSE 0

\* Lines 83-88.
GdpTerm(gdp_growth) ==
    IF gdp_growth = None THEN 0
    ELSE IF gdp_growth[1] < 0 THEN 15000
    ELSE IF gdp_growth[1] < 2000 THEN (2000 - gdp_growth[1]) * 5
    ELSE 0

\* Lines 91-96.
SentimentTerm(consumer_sentiment) ==
    IF consumer_sentiment = None THEN 0
    ELSE IF consumer_sentiment[1] < 70000 THEN 10000
    ELSE IF consumer_sentiment[1] < 90000 THEN (90000 - consumer_sentiment[1]) \div 4
    ELSE 0

\* Lines 99-102.
SpreadTerm(credit_spread) ==
    IF credit_spread = None THEN 0
    ELSE IF credit_spread[1] > 2500 THEN (credit_spread[1] - 2500) * 8
    ELSE 0

\* Line 105 without the upper limit.
Clamp_nomax(risk) == IF risk < 5000 THEN 5000 ELSE risk

\* Line 105: max(5.0, min(95.0, risk)).
Clamp(risk) ==
    LET m == IF risk < 95000 THEN risk ELSE 95000
    IN IF m > 5000 THEN m ELSE 5000

\* Line 106: round(risk, 1), to the nearest tenth.  Python rounds the binary
\* value of the float correctly, so a tie exists only where the float holds
\* the decimal exactly (xx.25, xx.75) and goes to the even tenth; the inputs
\* of the model produce no other tie.
Round1(risk) ==
    LET q == risk \div 100
        r == risk % 100
    IN IF r < 50 THEN q * 100
       ELSE IF r > 50 THEN (q + 1) * 100
       ELSE IF q % 2 = 0 THEN q * 100 ELSE (q + 1) * 100

\* The running score of lines 50-102, before the clamp.
RawRisk(yield_10y, yield_2y, unemployment, initial_claims, gdp_growth, consumer_sentiment, credit_spread) ==
    BaseRisk
    + YieldTerm(YieldCurve(yield_10y, yield_2y))
    + UnemploymentTerm(unemployment)
    + ClaimsTerm(initial_claims)
    + GdpTerm(gdp_growth)
    + SentimentTerm(consumer_sentiment)
    + SpreadTerm(credit_spread)

\* compute_risk with a base risk of 10.0.
compute_risk_base10(yield_10y, yield_2y, unemployment, initial_claims, gdp_growth, industrial_prod, consumer_sentiment, credit_spread, housing_starts) ==
    [risk |-> Round1(Clamp(RawRisk(yield_10y, yield_2y, unemployment,
                                   initial_claims, gdp_growth,
                                   consumer_sentiment, credit_spread) - 5000)),
     yc |-> YieldCurve(yield_10y, yield_2y)]

\* compute_risk with a term for industrial_prod.
compute_risk_indpro(yield_10y, yield_2y, unemployment, initial_claims, gdp_growth, industrial_prod, consumer_sentiment, credit_spread, housing_starts) ==
    [risk |-> Round1(Clamp(RawRisk(yield_10y, yield_2y, unemployment,
                                   initial_claims, gdp_growth,
                                   consumer_sentiment, credit_spread)
                           + (IF industrial_prod # None /\ industrial_prod[1] < 101000
                              THEN 5000 ELSE 0))),
     yc |-> YieldCurve(yield_10y, yield_2y)]

\* compute_risk: the pair (risk score, yield-curve spread).
compute_risk(yield_10y, yield_2y, unemployment, initial_claims, gdp_growth, industrial_prod, consumer_sentiment, credit_spread, housing_starts) ==
    [risk |-> Round1(Clamp(RawRisk(yield_10y, yield_2y, unemployment,
                                   initial_claims, gdp_growth,
                                   consumer_sentiment, credit_spread))),
     yc |-> YieldCurve(yield_10y, yield_2y)]

\* Lines 162-172: compute_risk on the values of the day.
ScoreOf(v) ==
    compute_risk(v["yield_10y"], v["yield_2y"], v["unemployment"],
                 v["initial_claims"], v["gdp_growth"], v["industrial_prod"],
                 v["consumer_sentiment"], v["credit_spread"], v["housing_starts"])

----------------------------------------------------------------------------
(* Inputs: calendars, raw FRED responses, indicator values *)

\* Two runs of consecutive calendar days, one across a year end and one
\* across the end of February of a leap year.  A build starts on the first
\* day of a calendar.
Calendars ==
    { << <<2023, 12, 30>>, <<2023, 12, 31>>, <<2024, 1, 1>>, <<2024, 1, 2>>,
         <<2024, 1, 3>>, <<2024, 1, 4>> >>,
      << <<2024, 2, 27>>, <<2024, 2, 28>>, <<2024, 2, 29>>, <<2024, 3, 1>>,
         <<2024, 3, 2>>, <<2024, 3, 3>> >> }

CalendarOf(start) == CHOOSE cal \in Calendars : cal[1] = start

\* The two responses FRED may give for a series in a build starting on
\* cal[1]: observations out of order, repeated dates, missing and
\* non-numeric values, empty responses.
RawChoices(label, cal) ==
    CASE label = "yield_10y" ->
           { <<>>,
             << RawObs(cal[2], "num", 2000), RawObs(cal[1], "dot", 0),
                RawObs(cal[3], "num", 3000) >> }
      [] label = "yield_2y" ->
           { << RawObs(cal[2], "num", 2500) >>,
             << RawObs(cal[3], "num", 2600), RawObs(cal[2], "num", 2600) >> }
      [] label = "unemployment" ->
           { << RawObs(cal[1], "num", 4500), RawObs(cal[2], "num", 20000) >>,
             << RawObs(cal[2], "num", 6000) >> }
      [] label = "initial_claims" ->
           { <<>>,
             << RawObs(cal[2], "num", 320000000), RawObs(cal[2], "num", 250000000) >> }
      [] label = "gdp_growth" ->
           { << RawObs(cal[2], "num", -1000) >>,
             << RawObs(cal[3], "num", 1000), RawObs(cal[2], "null", 0) >> }
      [] label = "industrial_prod" ->
           { <<>>,
             << RawObs(cal[1], "num", 102000), RawObs(cal[2], "num", 100000) >> }
      [] label = "consumer_sentiment" ->
           { << RawObs(cal[2], "num", 60000) >>,
             << RawObs(cal[2], "num", 85000), RawObs(cal[3], "text", 0) >> }
      [] label = "credit_spread" ->
           { << RawObs(cal[3], "num", 3000) >>,
             << RawObs(cal[2], "num", 1000) >> }
      [] label = "housing_starts" ->
           { << RawObs(cal[1], "num", 1400000) >>,
             <<>> }

\* The calendar of the cursor harness.
CursorCal == CalendarOf(<<2024, 2, 27>>)

\* The labels the cursor harness builds cursors for.
CursorLabels == { "yield_10y", "yield_2y" }

\* The responses the cursor harness fetches its series from.
CursorRaws(label) ==
    IF label = "yield_10y"
    THEN { <<>>,
           << RawObs(CursorCal[2], "num", 2000) >>,
           << RawObs(CursorCal[4], "num", 3000), RawObs(CursorCal[2], "num", 2000),
              RawObs(CursorCal[3], "dot", 0) >>,
           << RawObs(CursorCal[3], "num", 2500), RawObs(CursorCal[3], "num", 2600),
              RawObs(CursorCal[5], "num", 1000) >> }
    ELSE { << RawObs(CursorCal[1], "num", 1000) >>,
           << RawObs(CursorCal[3], "num", 2000), RawObs(CursorCal[2], "text", 0),
              RawObs(CursorCal[3], "num", 2500) >> }

\* The dates the cursor harness queries.
QueryDates == { CursorCal[i] : i \in 1..5 }

\* The values the scorer harness draws each argument of compute_risk from.
RiskInputs(label) ==
    CASE label = "yield_10y" -> { None, Some(2000), Some(3000) }
      [] label = "yield_2y" ->
           { None, Some(1000), Some(2250), Some(2500), Some(2600) }
      [] label = "unemployment" ->
           { None, Some(3500), Some(4500), Some(6000), Some(20000) }
      [] label = "initial_claims" ->
           { None, Some(250000000), Some(302500000), Some(320000000) }
      [] label = "gdp_growth" -> { None, Some(-1000), Some(1000), Some(2500) }
      [] label = "industrial_prod" -> { None, Some(102000) }
      [] label = "consumer_sentiment" ->
           { None, Some(60000), Some(85000), Some(95000) }
      [] label = "credit_spread" -> { None, Some(1000), Some(3000) }
      [] label = "housing_starts" -> { None, Some(1400000) }

\* What industrial_prod and housing_starts may hold instead.
UnusedInputs == { None, Some(100000), Some(102000), Some(1400000) }

----------------------------------------------------------------------------
(* State machine of build_daily_history *)

NoCall == [date |-> None, ret |-> None]

\* The history variables before any fetch and any get_value call.
HistoryInit ==
    /\ fetches = [l \in Labels |-> 0]
    /\ failed = None
    /\ ncalls = [l \in Labels |-> 0]
    /\ lastq = [l \in Labels |-> NoCall]
    /\ prevq = [l \in Labels |-> NoCall]
    /\ snap = None

\* build_daily_history(start_date, end_date, api_key) is entered.
Init ==
    /\ \E cal \in Calendars : \E span \in 0..MaxSpan :
          /\ start_date = cal[1]
          /\ end_date = cal[1 + span]
    /\ pc = "fetch"
    /\ fi = 1
    /\ history_series = <<>>
    /\ cursors = <<>>
    /\ d = None
    /\ vals = <<>>
    /\ out = None
    /\ results = <<>>
    /\ returned = None
    /\ HistoryInit

\* Lines 130-134, one iteration: the fetch of the next series succeeds.
FetchOk ==
    /\ pc = "fetch"
    /\ \E raw \in RawChoices(SeriesOrder[fi], CalendarOf(start_date)) :
          history_series' =
              (SeriesOrder[fi] :> fetch_series_history(raw)) @@ history_series
    /\ fetches' = [fetches EXCEPT ![SeriesOrder[fi]] = @ + 1]
    /\ fi' = fi + 1
    /\ pc' = IF fi = Len(SeriesOrder) THEN "cursors" ELSE "fetch"
    /\ UNCHANGED <<start_date, end_date, cursors, d, vals, out, results, returned,
                   failed, ncalls, lastq, prevq, snap>>

\* Lines 130-134 with the exception of the fetch swallowed: the series is
\* taken as empty and the loop goes on.
FetchError_swallowed ==
    /\ pc = "fetch"
    /\ history_series' = (SeriesOrder[fi] :> <<>>) @@ history_series
    /\ fetches' = [fetches EXCEPT ![SeriesOrder[fi]] = @ + 1]
    /\ failed' = Some(SeriesOrder[fi])
    /\ fi' = fi + 1
    /\ pc' = IF fi = Len(SeriesOrder) THEN "cursors" ELSE "fetch"
    /\ UNCHANGED <<start_date, end_date, cursors, d, vals, out, results, returned,
                   ncalls, lastq, prevq, snap>>

\* Line 132 with lines 22-24: requests.get, raise_for_status or resp.json
\* raises; nothing catches it, so build_daily_history ends by the exception.
FetchError ==
    /\ pc = "fetch"
    /\ fetches' = [fetches EXCEPT ![SeriesOrder[fi]] = @ + 1]
    /\ failed' = Some(SeriesOrder[fi])
    /\ pc' = "aborted"
    /\ UNCHANGED <<start_date, end_date, fi, history_series, cursors, d, vals, out,
                   results, returned, ncalls, lastq, prevq, snap>>

\* Lines 137-139 and 157-158: one cursor per fetched series, the empty
\* result list, d = start_date.
MakeCursors ==
    /\ pc = "cursors"
    /\ cursors' = [l \in DOMAIN history_series |->
                      [obs |-> history_series[l], idx |-> 0, current |-> None]]
    /\ results' = <<>>
    /\ d' = start_date
    /\ pc' = "loop"
    /\ UNCHANGED <<start_date, end_date, fi, history_series, vals, out, returned,
                   fetches, failed, ncalls, lastq, prevq, snap>>

\* Line 159, the test of the loop, and line 180 when it fails.
LoopTest ==
    /\ pc = "loop"
    /\ IF DateLE(d, end_date)
       THEN /\ pc' = "vals"
            /\ vals' = <<>>
            /\ returned' = returned
       ELSE /\ pc' = "done"
            /\ vals' = vals
            /\ returned' = Some(results)
    /\ UNCHANGED <<start_date, end_date, fi, history_series, cursors, d, out, results,
                   fetches, failed, ncalls, lastq, prevq, snap>>

\* A call get_value(label, date): the cursor is advanced, the value returned
\* goes to `ret`, and the history variables record the call.
Call(label, date) ==
    LET g == get_value(cursors, label, date)
    IN /\ cursors' = g.cursors
       /\ ncalls' = [ncalls EXCEPT ![label] = @ + 1]
       /\ prevq' = [prevq EXCEPT ![label] = lastq[label]]
       /\ lastq' = [lastq EXCEPT ![label] = [date |-> date, ret |-> g.ret]]
       /\ snap' = Some([label |-> label, cursors |-> cursors])

\* The label the dict comprehension of line 160 queries next.
NextLabel == SeriesOrder[Cardinality(DOMAIN vals) + 1]

\* Line 160, one element of the comprehension: get_value(label, d).
Query ==
    /\ pc = "vals"
    /\ Call(NextLabel, d)
    /\ vals' = (NextLabel :> lastq'[NextLabel].ret) @@ vals
    /\ pc' = IF Cardinality(DOMAIN vals) + 1 = Len(SeriesOrder) THEN "score" ELSE "vals"
    /\ UNCHANGED <<start_date, end_date, fi, history_series, d, out, results, returned,
                   fetches, failed>>

\* Lines 162-178 without line 178: the day is scored and recorded, d stays.
Score_stay ==
    /\ pc = "score"
    /\ out' = Some(ScoreOf(vals))
    /\ results' = Append(results, [date |-> strftime(d), risk |-> ScoreOf(vals).risk])
    /\ d' = d
    /\ pc' = "loop"
    /\ UNCHANGED <<start_date, end_date, fi, history_series, cursors, vals, returned,
                   fetches, failed, ncalls, lastq, prevq, snap>>

\* Lines 162-178: the day is scored and recorded, d moves to the next day.
Score ==
    /\ pc = "score"
    /\ out' = Some(ScoreOf(vals))
    /\ results' = Append(results, [date |-> strftime(d), risk |-> ScoreOf(vals).risk])
    /\ d' = NextDay(d)
    /\ pc' = "loop"
    /\ UNCHANGED <<start_date, end_date, fi, history_series, cursors, vals, returned,
                   fetches, failed, ncalls, lastq, prevq, snap>>

Next == FetchOk \/ FetchError \/ MakeCursors \/ LoopTest \/ Query \/ Score

Spec == Init /\ [][Next]_vars

----------------------------------------------------------------------------
(* Harness of the cursor: get_value under any non-decreasing queries *)

\* Cursors over fetched series, as lines 137-139 build them; no call yet.
InitCursor ==
    /\ pc = "cursor"
    /\ start_date = CursorCal[1]
    /\ end_date = CursorCal[5]
    /\ fi = 1
    /\ \E r10 \in CursorRaws("yield_10y") : \E r2 \in CursorRaws("yield_2y") :
          history_series = ("yield_10y" :> fetch_series_history(r10))
                           @@ ("yield_2y" :> fetch_series_history(r2))
    /\ cursors = [l \in CursorLabels |->
                     [obs |-> history_series[l], idx |-> 0, current |-> None]]
    /\ d = None
    /\ vals = <<>>
    /\ out = None
    /\ results = <<>>
    /\ returned = None
    /\ HistoryInit

\* get_value(label, q) with q not before the previous query on that cursor.
CursorCall ==
    /\ pc = "cursor"
    /\ \E label \in CursorLabels : \E q \in QueryDates :
          /\ ncalls[label] < MaxCalls
          /\ ncalls[label] > 0 => DateLE(lastq[label].date, q)
          /\ Call(label, q)
    /\ UNCHANGED <<pc, start_date, end_date, fi, history_series, d, vals, out, results,
                   returned, fetches, failed>>

NextCursor == CursorCall

SpecCursor == InitCursor /\ [][NextCursor]_vars

----------------------------------------------------------------------------
(* Harness of the scorer: compute_risk on any nine arguments *)

InitRisk ==
    /\ pc = "risk"
    /\ start_date = CursorCal[1]
    /\ end_date = CursorCal[1]
    /\ fi = 1
    /\ history_series = <<>>
    /\ cursors = <<>>
    /\ d = None
    /\ \E y10 \in RiskInputs("yield_10y") : \E y2 \in RiskInputs("yield_2y") :
       \E u \in RiskInputs("unemployment") : \E c \in RiskInputs("initial_claims") :
       \E g \in RiskInputs("gdp_growth") : \E ip \in RiskInputs("industrial_prod") :
       \E cs \in RiskInputs("consumer_sentiment") :
       \E sp \in RiskInputs("credit_spread") : \E hs \in RiskInputs("housing_starts") :
          vals = ("yield_10y" :> y10) @@ ("yield_2y" :> y2) @@ ("unemployment" :> u)
                 @@ ("initial_claims" :> c) @@ ("gdp_growth" :> g)
                 @@ ("industrial_prod" :> ip) @@ ("consumer_sentiment" :> cs)
                 @@ ("credit_spread" :> sp) @@ ("housing_starts" :> hs)
    /\ out = None
    /\ results = <<>>
    /\ returned = None
    /\ HistoryInit

\* compute_risk is called on the nine values.
RiskCall ==
    /\ pc = "risk"
    /\ out = None
    /\ out' = Some(ScoreOf(vals))
    /\ UNCHANGED <<pc, start_date, end_date, fi, history_series, cursors, d, vals,
                   results, returned, fetches, failed, ncalls, lastq, prevq, snap>>

NextRisk == RiskCall

SpecRisk == InitRisk /\ [][NextRisk]_vars

----------------------------------------------------------------------------
(* Vocabulary of the properties *)

\* date.toordinal(): the number of the day counted from 0001-01-01.
RECURSIVE DaysBeforeMonth(_, _)
DaysBeforeMonth(y, m) ==
    IF m = 1 THEN 0 ELSE DaysBeforeMonth(y, m - 1) + DaysInMonth(y, m - 1)

ToOrdinal(dt) ==
    (dt[1] - 1) * 365 + (dt[1] - 1) \div 4 - (dt[1] - 1) \div 100
    + (dt[1] - 1) \div 400 + DaysBeforeMonth(dt[1], dt[2]) + dt[3]

\* (end_date - start_date).days + 1
DaysInRange == ToOrdinal(end_date) - ToOrdinal(start_date) + 1

\* a < b on formatted dates, as texts are compared: at the first character
\* that differs.
DateStrLT(a, b) ==
    \E i \in {1, 2, 3, 4, 6, 7, 9, 10} :
        /\ a[i] < b[i]
        /\ \A j \in 1..(i - 1) : a[j] = b[j]

\* The value of the latest observation of obs dated <= date, None when there
\* is none: the last one in the list among those of the latest such date.
AsOf(obs, date) ==
    LET S == { i \in 1..Len(obs) : DateLE(obs[i].date, date) }
    IN IF S = {} THEN None
       ELSE LET latest == CHOOSE i \in S :
                              \A j \in S : \/ DateLT(obs[j].date, obs[i].date)
                                           \/ obs[j].date = obs[i].date /\ j <= i
            IN Some(obs[latest].value)

\* The running score of compute_risk on the values v, and that score with
\* the yield-curve term left out.
RawOf(v) ==
    RawRisk(v["yield_10y"], v["yield_2y"], v["unemployment"], v["initial_claims"],
            v["gdp_growth"], v["consumer_sentiment"], v["credit_spread"])

RawWithoutYield(v) ==
    RawRisk(None, None, v["unemployment"], v["initial_claims"],
            v["gdp_growth"], v["consumer_sentiment"], v["credit_spread"])

BothYields(v) == v["yield_10y"] # None /\ v["yield_2y"] # None

\* No series holds an observation dated on or before `day`.
NoDataYet(day) ==
    \A l \in DOMAIN history_series :
        \A i \in 1..Len(history_series[l]) : DateLT(day, history_series[l][i].date)

\* The score of `day` from the seven scored series alone, with x and y in
\* the place of industrial_prod and housing_starts.
ScoreFromSeven(day, x, y) ==
    compute_risk(AsOf(history_series["yield_10y"], day),
                 AsOf(history_series["yield_2y"], day),
                 AsOf(history_series["unemployment"], day),
                 AsOf(history_series["initial_claims"], day),
                 AsOf(history_series["gdp_growth"], day),
                 x,
                 AsOf(history_series["consumer_sentiment"], day),
                 AsOf(history_series["credit_spread"], day),
                 y)

----------------------------------------------------------------------------
(* Properties *)

\* C1: on a series sorted by date and under queries in ascending order, every
\* get_value(label, dn) returns the value of the latest observation dated
\* <= dn, never one dated after dn, and None when no observation is dated
\* <= dn (an empty series included).
C1_ValueAsOf ==
    \A l \in DOMAIN cursors :
        /\ \A i \in 1..(Len(history_series[l]) - 1) :
              DateLE(history_series[l][i].date, history_series[l][i + 1].date)
        /\ ncalls[l] > 0 =>
              lastq[l].ret = AsOf(history_series[l], lastq[l].date)

\* A later query, after a gap, returned a carried value while the series
\* still holds an observation dated after the query.
C1_Witness ==
    \E l \in DOMAIN cursors :
        /\ ncalls[l] >= 2
        /\ DateLT(prevq[l].date, lastq[l].date)
        /\ prevq[l].ret = None
        /\ lastq[l].ret # None
        /\ \E i \in 1..Len(history_series[l]) :
              DateLT(lastq[l].date, history_series[l][i].date)

\* C5: get_value(label, d) called twice in a row with the same d returns the
\* same value both times, and the second call leaves idx and current of the
\* cursor as they were.
C5_Idempotent ==
    \A l \in DOMAIN cursors :
        (ncalls[l] >= 2 /\ prevq[l].date = lastq[l].date) =>
            /\ lastq[l].ret = prevq[l].ret
            /\ (snap # None /\ snap[1].label = l) =>
                  /\ cursors[l].idx = snap[1].cursors[l].idx
                  /\ cursors[l].current = snap[1].cursors[l].current

\* The last call repeated the date of the call before it on a cursor that
\* had consumed observations, and returned a value.
C5_Witness ==
    \E l \in DOMAIN cursors :
        /\ ncalls[l] >= 2
        /\ prevq[l].date = lastq[l].date
        /\ snap # None /\ snap[1].label = l
        /\ cursors[l].idx > 0
        /\ lastq[l].ret # None

\* C3: whatever the nine inputs, absent or numbers, the score compute_risk
\* returns lies in [5.0, 95.0] and is a whole number of tenths.
C3_Bounded ==
    out # None =>
        /\ 5000 <= out[1].risk
        /\ out[1].risk <= 95000
        /\ out[1].risk % 100 = 0

\* A running score above 95.0 was clamped.
C3_Witness ==
    /\ pc = "risk"
    /\ out # None
    /\ RawOf(vals) > 95000
    /\ out[1].risk = 95000

\* C8: the yield-curve thresholds are strict.  At a spread of exactly 0.5 the
\* term changes nothing; at exactly -0.5 the +25 branch does not fire and
\* the term adds 0.5 x 30 = 15; with either yield absent the term is
\* skipped and the spread returned is None.
C8_YieldThresholds ==
    out # None =>
        LET diff == vals["yield_10y"][1] - vals["yield_2y"][1]
        IN /\ (BothYields(vals) /\ diff = 500) =>
                 /\ out[1].yc = Some(500)
                 /\ RawOf(vals) = RawWithoutYield(vals)
                 /\ out[1].risk = Round1(Clamp(RawWithoutYield(vals)))
           /\ (BothYields(vals) /\ diff = -500) =>
                 /\ out[1].yc = Some(-500)
                 /\ RawOf(vals) = RawWithoutYield(vals) + 15000
                 /\ out[1].risk = Round1(Clamp(RawWithoutYield(vals) + 15000))
           /\ ~BothYields(vals) =>
                 /\ out[1].yc = None
                 /\ out[1].risk = Round1(Clamp(RawWithoutYield(vals)))

\* compute_risk was called with a spread of exactly -0.5 and nothing else:
\* 15 + 15 = 30.0.
C8_Witness ==
    /\ pc = "risk"
    /\ out # None
    /\ BothYields(vals)
    /\ vals["yield_10y"][1] - vals["yield_2y"][1] = -500
    /\ \A l \in Labels \ {"yield_10y", "yield_2y"} : vals[l] = None
    /\ out[1].risk = 30000

\* C2: a build in which every fetch succeeds returns exactly
\* (end_date - start_date).days + 1 records, the i-th dated i - 1 days after
\* start_date, so one per calendar day of the range, in strictly ascending
\* date order, without gap or duplicate, whatever the series hold.
C2_Complete ==
    pc = "done" =>
        /\ returned # None
        /\ Len(returned[1]) = DaysInRange
        /\ \A i \in 1..Len(returned[1]) :
              /\ ToOrdinal(strptime(returned[1][i].date)) = ToOrdinal(start_date) + i - 1
              /\ returned[1][i].date = strftime(strptime(returned[1][i].date))
        /\ \A i \in 1..(Len(returned[1]) - 1) :
              DateStrLT(returned[1][i].date, returned[1][i + 1].date)

\* A build over 2024-02-27 .. 2024-02-29 returned its three records.
C2_Witness ==
    /\ pc = "done"
    /\ start_date = <<2024, 2, 27>>
    /\ end_date = <<2024, 2, 29>>
    /\ returned # None
    /\ Len(returned[1]) = 3
    /\ history_series["yield_10y"] = <<>>

\* C4: when the fetch of a series fails the build aborts: nothing is
\* returned, no cursor is built or queried, no day is scored, the failed
\* fetch was tried once and no series after it is fetched.  A build that
\* returns returns the full history, and a build stops only returned or
\* aborted.
C4_AbortOnFetchError ==
    /\ failed # None =>
          /\ pc = "aborted"
          /\ returned = None
          /\ results = <<>>
          /\ out = None
          /\ cursors = <<>>
          /\ \A l \in Labels : ncalls[l] = 0
          /\ fetches[failed[1]] = 1
          /\ \A i \in 1..Len(SeriesOrder) : \A j \in 1..Len(SeriesOrder) :
                (SeriesOrder[i] = failed[1] /\ j > i) => fetches[SeriesOrder[j]] = 0
    /\ returned # None =>
          /\ pc = "done"
          /\ failed = None
          /\ Len(returned[1]) = DaysInRange
    /\ pc = "aborted" => failed # None
    /\ pc \notin {"done", "aborted"} => ENABLED Next

\* The fetch of the fifth series failed after four fetches had succeeded.
C4_Witness ==
    /\ pc = "aborted"
    /\ failed = Some("gdp_growth")
    /\ fetches["initial_claims"] = 1
    /\ fetches["industrial_prod"] = 0

\* C6: compute_risk does not depend on industrial_prod and housing_starts:
\* the pair it returned for a day is the pair it returns with anything else
\* in their place, and every record of the history is the score of the
\* other seven series alone.
C6_UnusedInputs ==
    /\ (pc = "loop" /\ out # None) =>
          \A x \in UnusedInputs : \A y \in UnusedInputs :
              ScoreOf([vals EXCEPT !["industrial_prod"] = x,
                                   !["housing_starts"] = y]) = out[1]
    /\ \A i \in 1..Len(results) :
          \A x \in UnusedInputs : \A y \in UnusedInputs :
              results[i].risk = ScoreFromSeven(strptime(results[i].date), x, y).risk

\* A day was scored with values present for both unused indicators.
C6_Witness ==
    /\ pc = "loop"
    /\ out # None
    /\ Len(results) >= 2
    /\ vals["industrial_prod"] = Some(100000)
    /\ vals["housing_starts"] # None

\* C7: compute_risk with all nine inputs absent returns exactly 15.0 (and no
\* spread), and every day that precedes the first observation of every
\* series is recorded with risk 15.0.
C7_AbsentNeutral ==
    /\ (pc = "loop" /\ out # None /\ \A l \in Labels : vals[l] = None) =>
          out[1] = [risk |-> 15000, yc |-> None]
    /\ \A i \in 1..Len(results) :
          NoDataYet(strptime(results[i].date)) => results[i].risk = 15000

\* The first day of a build was scored with every input absent.
C7_Witness ==
    /\ pc = "loop"
    /\ out # None
    /\ \A l \in Labels : vals[l] = None
    /\ Len(results) = 1
    /\ NoDataYet(strptime(results[1].date))
    /\ results[1].risk = 15000

\* C9: every series is fetched once and all nine before the first query;
\* on day d every cursor is queried once, all nine before d moves on, so a
\* cursor that is queried again is queried for a later date.
C9_Ordering ==
    /\ \A l \in Labels : fetches[l] <= 1
    /\ (\E l \in Labels : ncalls[l] > 0) =>
          /\ failed = None
          /\ \A l \in Labels : fetches[l] = 1
    /\ pc \in {"loop", "vals", "score"} =>
          LET k == ToOrdinal(d) - ToOrdinal(start_date)
          IN \A l \in Labels :
                IF pc # "loop" /\ l \in DOMAIN vals
                THEN /\ ncalls[l] = k + 1
                     /\ lastq[l].date = d
                ELSE /\ ncalls[l] = k
                     /\ k > 0 => ToOrdinal(lastq[l].date) = ToOrdinal(d) - 1
    /\ \A l \in Labels : ncalls[l] >= 2 => DateLT(prevq[l].date, lastq[l].date)
    /\ pc = "done" =>
          \A l \in Labels : fetches[l] = 1 /\ ncalls[l] = DaysInRange

\* In the middle of the second day: four cursors queried for it, five not yet.
C9_Witness ==
    /\ pc = "vals"
    /\ Cardinality(DOMAIN vals) = 4
    /\ ToOrdinal(d) = ToOrdinal(start_date) + 1
    /\ ncalls["yield_10y"] = 2
    /\ ncalls["housing_starts"] = 1

\* The state of every cursor between calls.
C10_CursorState ==
    \A l \in DOMAIN cursors :
        LET c == cursors[l]
        IN /\ 0 <= c.idx
           /\ c.idx <= Len(c.obs)
           /\ c.current = None <=> c.idx = 0
           /\ c.idx > 0 => c.current = Some(c.obs[c.idx].value)
           /\ c.obs = history_series[l]
           /\ snap # None =>
                 /\ snap[1].cursors[l].idx <= c.idx
                 /\ l # snap[1].label => c = snap[1].cursors[l]

\* What a step may do to the cursors and the series.
C10_CursorStep ==
    /\ \A l \in DOMAIN cursors :
          /\ l \in DOMAIN cursors'
          /\ cursors'[l].idx >= cursors[l].idx
          /\ cursors'[l].obs = cursors[l].obs
          /\ ncalls'[l] = ncalls[l] => cursors'[l] = cursors[l]
    /\ cursors # <<>> => history_series' = history_series

\* C10: for every cursor, between get_value calls, 0 <= idx <= len(obs); the
\* carried value is None exactly when idx = 0 and is the value of
\* obs[idx - 1] otherwise; idx never decreases; a get_value call on one
\* label changes no other cursor, and no call changes a series.
C10_CursorInvariant == [] C10_CursorState /\ [][C10_CursorStep]_vars

\* A cursor has consumed two observations over two calls.
C10_Witness ==
    \E l \in DOMAIN cursors :
        /\ cursors[l].idx = 2
        /\ ncalls[l] >= 2
        /\ snap # None
        /\ snap[1].label # l

====
